---- MODULE Spec2Model ----
(***************************************************************************)
(* Model of yolo-robust-training-pipeline: the dataset sanitizer           *)
(* py/data_sanitizer.py (sanitize_image, sanitize_dataset), the launcher   *)
(* train_robust.py (main) and the data set class py/custom_dataset.py      *)
(* (CustomClassificationDataset.__getitem__).                              *)
(*                                                                         *)
(* The file system is a map from paths to file contents plus a set of      *)
(* directories.  A run of sanitize_dataset is split where the code is      *)
(* concurrent: the entry (skip check, discovery, pool creation), one       *)
(* sanitize_image per task in four steps (makedirs, open/convert/resize,   *)
(* opening the destination, writing it), the main loop consuming           *)
(* imap_unordered, and the final report.                                   *)
(* Paths follow pathlib on POSIX: glob patterns match case-sensitively.    *)
(***************************************************************************)
EXTENDS Integers, Sequences, FiniteSets, TLC

\* ---------------------------------------------------------------- bounds
MaxFiles == 3
MaxWorkers == 2
MaxCalls == 2
MaxOverlapCalls == 1
MaxFaults == 1
MaxFaultyFiles == 2
MaxNested == 1
MaxInPlace == 2
BulkFiles == 11
BulkWorkers == 1
CpuCount == 2
MaxSide == 5000
MaxSamples == 3
MaxClasses == 2
RecursionLimit == 3

\* ------------------------------------------------------ program constants
MAX_RESOLUTION_BEFORE_RESIZE == <<2048, 2048>>
TARGET_SIZE_AFTER_RESIZE == <<1024, 1024>>
JPEG_QUALITY == 95
DISPLAY_CAP == 10
DEFAULT_MAX_WORKERS == 16

\* --------------------------------------------------------------- strings
\* A string is a sequence of one-character strings, so that lower() and
\* upper() act on it letter by letter.
LowerLetters == <<"b", "e", "f", "g", "i", "j", "m", "n", "p", "t", "w", "x">>
UpperLetters == <<"B", "E", "F", "G", "I", "J", "M", "N", "P", "T", "W", "X">>

LowerChar(c) ==
    IF \E k \in DOMAIN UpperLetters : UpperLetters[k] = c
    THEN LowerLetters[CHOOSE k \in DOMAIN UpperLetters : UpperLetters[k] = c]
    ELSE c

UpperChar(c) ==
    IF \E k \in DOMAIN LowerLetters : LowerLetters[k] = c
    THEN UpperLetters[CHOOSE k \in DOMAIN LowerLetters : LowerLetters[k] = c]
    ELSE c

Lower(s) == [k \in DOMAIN s |-> LowerChar(s[k])]
Upper(s) == [k \in DOMAIN s |-> UpperChar(s[k])]

supported_formats ==
    << <<".", "j", "p", "g">>,
       <<".", "j", "p", "e", "g">>,
       <<".", "p", "n", "g">>,
       <<".", "b", "m", "p">>,
       <<".", "t", "i", "f", "f">>,
       <<".", "w", "e", "b", "p">> >>

JpgSuffix == <<".", "j", "p", "g">>

\* ----------------------------------------------------------------- paths
\* A path is its directory (a sequence of components from the root), the
\* stem of its last component and that component's suffix (with the dot).
MkPath(d, stem, suffix) == [dir |-> d, stem |-> stem, suffix |-> suffix]

NoPath == MkPath(<<>>, "", <<>>)

IsPrefix(a, b) == Len(a) <= Len(b) /\ SubSeq(b, 1, Len(a)) = a

\* Path.relative_to(root): the directory loses the root's components.
relative_to(p, root) ==
    MkPath(SubSeq(p.dir, Len(root) + 1, Len(p.dir)), p.stem, p.suffix)

\* root / relative
JoinPath(root, rel) == MkPath(root \o rel.dir, rel.stem, rel.suffix)

with_suffix(p, suffix) == MkPath(p.dir, p.stem, suffix)

\* os.path.dirname of a file path
dirname(p) == p.dir

\* Mutant: os.mkdir, which creates the last directory only.
makedirs_LeafOnly(d) == {d}

\* The directories os.makedirs(d, exist_ok=True) leaves in existence.
makedirs(d) == {SubSeq(d, 1, k) : k \in 1..Len(d)}

\* fnmatch of a file name against "*" + suffix: the name ends with the
\* suffix, compared case-sensitively (pathlib on POSIX).
fnmatch(p, pattern) ==
    /\ Len(pattern) >= 1
    /\ pattern[1] = "*"
    /\ p.suffix = Tail(pattern)

\* ---------------------------------------------------------- file contents
\* A file's content: an image (its container format, colour mode, size in
\* pixels, encoder quality, the picture it shows and how many times that
\* picture went through the JPEG encoder) or bytes that decode to nothing.
MkImage(format, mode, size, quality, origin, gen) ==
    [kind |-> "image", format |-> format, mode |-> mode, size |-> size,
     quality |-> quality, origin |-> origin, gen |-> gen]

Junk(origin) ==
    [kind |-> "junk", format |-> "none", mode |-> "none", size |-> <<0, 0>>,
     quality |-> 0, origin |-> origin, gen |-> 0]

Abs(n) == IF n < 0 THEN -n ELSE n

Max(a, b) == IF a >= b THEN a ELSE b

\* PIL.Image.thumbnail's round_aspect for the width: of floor and ceil of
\* y * w / h, the one whose ratio to y is nearer to w / h (floor on a tie),
\* and at least 1.
RoundAspectX(w, h, y) ==
    LET lo == (y * w) \div h
        hi == IF (y * w) % h = 0 THEN lo ELSE lo + 1
    IN  Max(IF Abs(w * y - lo * h) <= Abs(w * y - hi * h) THEN lo ELSE hi, 1)

\* The same for the height: floor or ceil of x * h / w, by |w/h - x/n|,
\* where n = 0 has key 0.
RoundAspectY(w, h, x) ==
    LET lo == (x * h) \div w
        hi == IF (x * h) % w = 0 THEN lo ELSE lo + 1
    IN  Max(IF lo = 0 \/ Abs(w * lo - x * h) * hi <= Abs(w * hi - x * h) * lo
            THEN lo ELSE hi, 1)

\* Mutant: the image is stretched to the target box.
thumbnail_Stretch(size, target) == target

\* img.thumbnail(target): the size of the image afterwards.
thumbnail(size, target) ==
    LET w == size[1]
        h == size[2]
        x == target[1]
        y == target[2]
    IN  IF x >= w /\ y >= h THEN size
        ELSE IF x * h >= y * w THEN <<RoundAspectX(w, h, y), y>>
        ELSE <<x, RoundAspectY(w, h, x)>>

\* img.convert("RGB")
convert(im, mode) == [im EXCEPT !.mode = mode]

\* Mutant: an image exactly at the threshold is resized too.
NeedsResize_Inclusive(im) ==
    \/ im.size[1] >= MAX_RESOLUTION_BEFORE_RESIZE[1]
    \/ im.size[2] >= MAX_RESOLUTION_BEFORE_RESIZE[2]

\* img.width > 2048 or img.height > 2048
NeedsResize(im) ==
    \/ im.size[1] > MAX_RESOLUTION_BEFORE_RESIZE[1]
    \/ im.size[2] > MAX_RESOLUTION_BEFORE_RESIZE[2]

\* The image sanitize_image holds in memory after decoding the content c:
\* converted to RGB and, above the threshold, shrunk to the target box.
Decoded(c) ==
    LET rgb == convert(c, "RGB")
    IN  IF NeedsResize(rgb)
        THEN [rgb EXCEPT !.size = thumbnail(rgb.size, TARGET_SIZE_AFTER_RESIZE)]
        ELSE rgb

\* img.save(dest_path, "JPEG", quality=95): the bytes written.
Encoded(im) ==
    MkImage("JPEG", im.mode, im.size, JPEG_QUALITY, im.origin, im.gen + 1)

\* A destination file whose JPEG is not, or not coherently, written: it
\* decodes to nothing.
Partial(im) ==
    [Junk(im.origin) EXCEPT !.format = "JPEG", !.gen = im.gen + 1]

\* ------------------------------------------------- results of one task
\* sanitize_image returns None or the message
\* f"Error processing {src_path}: {e}".
None == [none |-> TRUE, prefix |-> "", src |-> NoPath, detail |-> ""]

ErrorMessage(src_path, e) ==
    [none |-> FALSE, prefix |-> "Error processing ", src |-> src_path,
     detail |-> e]

\* Mutant: every result counts as an error.
Truthy_Always(r) == TRUE

\* Python's truth value of a result: None and the empty string are false.
Truthy(r) == ~r.none /\ (r.prefix # "" \/ r.src # NoPath \/ r.detail # "")

\* ------------------------------------------------------------ file system
VARIABLES
    fs,             \* path -> content, for the files that exist
    dirs,           \* the directories that exist
    dest_path,      \* argument dest_dir, resolved
    force_rescan,   \* argument force_rescan
    workers,        \* argument workers: <<n>>, or <<>> for None
    io_faults,      \* how many more I/O calls the environment will fail
    pc,             \* "idle", "dispatch" (inside the pool), "returned"
    rets,           \* what each call so far returned or raised
    tasks,          \* the paths discovery collected
    process_tasks,  \* the (source, destination) pairs
    pos,            \* task -> "queued", "started", "loaded", "saving", "done"
    img,            \* task -> the image it holds in memory
    result,         \* task -> what sanitize_image returned
    outq,           \* tasks in the order their results arrived
    pbar,           \* results consumed by the main loop
    errors,         \* the list errors
    displayed,      \* the errors printed
    fs0,            \* fs when the current call began
    dirs0,          \* dirs when the current call began
    nrun,           \* task -> how many times sanitize_image took it
    saved,          \* tasks whose img.save completed
    discovered,     \* whether the current call ran discovery
    pool_started,   \* whether the current call created the pool
    main_pc,        \* train_robust.main: "none" (not run), "sanitize",
                    \* "training", "exited"
    command,        \* <<the training command subprocess.run started>>, or <<>>
    exit_code,      \* <<the launcher's exit status>>, or <<>>
    samples,        \* the dataset's samples: whether the file loads, its class
    frames,         \* the indexes of the nested __getitem__ calls
    item_pc,        \* "none", "idle", "running", "returned", "raised"
    item            \* <<what the outermost __getitem__ returned>>, or <<>>

vars == <<fs, dirs, dest_path, force_rescan, workers, io_faults, pc, rets,
          tasks, process_tasks, pos, img, result, outq, pbar, errors,
          displayed, fs0, dirs0, nrun, saved, discovered, pool_started,
          main_pc, command, exit_code, samples, frames, item_pc, item>>

\* The state of the launcher's main and of the dataset's __getitem__.
launcher == <<main_pc, command, exit_code>>

loader == <<samples, frames, item_pc, item>>

args == <<dest_path, force_rescan, workers>>

\* argument source_dir, resolved
source_path == <<"S">>

\* The order in which a directory scan lists names.
ScanOrder ==
    <<"a", "b", "c", "d", "e", "sub", "out", "bulk", "S", "D">>
    \o [k \in 1..(BulkFiles + 1) |-> ToString(k)]

Rank(name) == CHOOSE k \in DOMAIN ScanOrder : ScanOrder[k] = name

\* Directory a is walked before directory b: a directory before the
\* directories under it, siblings in scan order.
DirBefore(a, b) ==
    IF IsPrefix(a, b) THEN TRUE
    ELSE IF IsPrefix(b, a) THEN FALSE
    ELSE LET k == CHOOSE n \in 1..Len(a) :
                    /\ a[n] # b[n]
                    /\ \A m \in 1..(n - 1) : a[m] = b[m]
         IN  Rank(a[k]) < Rank(b[k])

WalkBefore(p, q) ==
    IF p.dir = q.dir THEN Rank(p.stem) < Rank(q.stem)
    ELSE DirBefore(p.dir, q.dir)

RECURSIVE WalkSeq(_)
WalkSeq(paths) ==
    IF paths = {} THEN <<>>
    ELSE LET first == CHOOSE p \in paths :
                        \A q \in paths \ {p} : WalkBefore(p, q)
         IN  <<first>> \o WalkSeq(paths \ {first})

\* root.rglob(pattern): the files under root whose name matches, in walk order.
rglob(files, root, pattern) ==
    WalkSeq({p \in DOMAIN files : IsPrefix(root, p.dir) /\ fnmatch(p, pattern)})

\* The loop over supported_formats: for each, the lower-case and then the
\* upper-case pattern.
Discover(files) ==
    LET found[k \in 0..Len(supported_formats)] ==
            IF k = 0 THEN <<>>
            ELSE found[k - 1]
                 \o rglob(files, source_path, <<"*">> \o Lower(supported_formats[k]))
                 \o rglob(files, source_path, <<"*">> \o Upper(supported_formats[k]))
    IN  found[Len(supported_formats)]

\* Mutant: the destination keeps the file name but not its directory.
DestOf_Flat(src_img_path, dest) ==
    with_suffix(MkPath(dest, src_img_path.stem, src_img_path.suffix), JpgSuffix)

\* dest_img_path of one discovered source
DestOf(src_img_path, dest) ==
    with_suffix(JoinPath(dest, relative_to(src_img_path, source_path)),
                JpgSuffix)

ProcessTasks(found, dest) ==
    [k \in DOMAIN found |-> [src |-> found[k], dest |-> DestOf(found[k], dest)]]

\* Mutant: an existing destination counts only when it holds a file.
SkipExistingCond_NonEmpty ==
    /\ dest_path \in dirs
    /\ ~force_rescan
    /\ \E p \in DOMAIN fs : IsPrefix(dest_path, p.dir)

\* Mutant: the negation of force_rescan dropped.
SkipExistingCond_NotDropped == dest_path \in dirs /\ force_rescan

\* dest_path.exists() and not force_rescan
SkipExistingCond == dest_path \in dirs /\ ~force_rescan

\* ------------------------------------------------------------------ Init
\* The files a source tree is drawn from.
Universe ==
    << [path |-> MkPath(<<"S">>, "a", <<".", "p", "n", "g">>),
        content |-> MkImage("PNG", "RGBA", <<500, 500>>, 0, "a.png", 0)],
       [path |-> MkPath(<<"S">>, "a", <<".", "j", "p", "g">>),
        content |-> MkImage("JPEG", "RGB", <<640, 480>>, 80, "a.jpg", 0)],
       [path |-> MkPath(<<"S">>, "b", <<".", "j", "p", "g">>),
        content |-> Junk("b.jpg")],
       [path |-> MkPath(<<"S", "sub">>, "c", <<".", "T", "I", "F", "F">>),
        content |-> MkImage("TIFF", "L", <<4000, 3000>>, 0, "c.TIFF", 0)],
       [path |-> MkPath(<<"S">>, "d", <<".", "J", "p", "g">>),
        content |-> MkImage("JPEG", "RGB", <<800, 600>>, 90, "d.Jpg", 0)],
       [path |-> MkPath(<<"S">>, "e", <<".", "t", "x", "t">>),
        content |-> Junk("e.txt")] >>

\* A tree of BulkFiles undecodable files.
BulkTree ==
    {[path |-> MkPath(<<"S", "bulk">>, ToString(k), JpgSuffix),
      content |-> Junk(ToString(k))] : k \in 1..BulkFiles}

SmallTrees ==
    {{Universe[k] : k \in ks} :
        ks \in {x \in SUBSET DOMAIN Universe : Cardinality(x) <= MaxFiles}}

TreeFs(tree) ==
    [p \in {f.path : f \in tree} |->
        (CHOOSE f \in tree : f.path = p).content]

TreeDirs(tree) ==
    {source_path} \cup UNION {makedirs(f.path.dir) : f \in tree}

DestChoices == {<<"D">>, <<"S">>, <<"S", "out">>}

NoTasks == <<>>

ResetCall ==
    /\ pos' = <<>>
    /\ img' = <<>>
    /\ result' = <<>>
    /\ outq' = <<>>
    /\ pbar' = 0
    /\ errors' = <<>>
    /\ displayed' = <<>>
    /\ nrun' = <<>>
    /\ saved' = {}

\* Small trees without I/O faults, the destination beside the source, equal
\* to it (trees of at most MaxInPlace files) or inside it (at most MaxNested).
InitSmall ==
    \E tree \in SmallTrees, dest_exists \in BOOLEAN :
        /\ fs = TreeFs(tree)
        /\ dest_path \in DestChoices
        /\ dest_path = <<"S", "out">> => Cardinality(tree) <= MaxNested
        /\ dest_path = <<"S">> => Cardinality(tree) <= MaxInPlace
        /\ dirs = TreeDirs(tree)
                  \cup (IF dest_exists THEN makedirs(dest_path) ELSE {})
        /\ force_rescan \in BOOLEAN
        /\ workers \in {<<>>} \cup {<<n>> : n \in -1..MaxWorkers}
        /\ io_faults = 0

\* Trees of at most MaxFaultyFiles files in an environment that fails up to
\* MaxFaults I/O calls, the destination beside the source and absent.
InitFaulty ==
    \E tree \in SmallTrees :
        /\ Cardinality(tree) <= MaxFaultyFiles
        /\ fs = TreeFs(tree)
        /\ dest_path = <<"D">>
        /\ dirs = TreeDirs(tree)
        /\ force_rescan = FALSE
        /\ workers \in {<<n>> : n \in 1..MaxWorkers}
        /\ io_faults \in 1..MaxFaults

\* The bulk tree, the destination beside the source and absent.
InitBulk ==
    /\ fs = TreeFs(BulkTree)
    /\ dest_path = <<"D">>
    /\ dirs = TreeDirs(BulkTree)
    /\ force_rescan = FALSE
    /\ workers \in {<<n>> : n \in 1..BulkWorkers}
    /\ io_faults = 0

\* The widths and heights of the images of the sized trees: around the
\* threshold, around the target, small, and large up to MaxSide.
Sides ==
    {1, 3, 700, 1023, 1024, 1025, 1367, 1500, 2047, 2048, 2049, 2050, 2731,
     3000, 4000, 4096, MaxSide}

\* One image of any size of Sides x Sides, the destination beside the source
\* and absent.
InitSized ==
    \E w \in Sides, h \in Sides :
        /\ fs = TreeFs({[path |-> MkPath(<<"S">>, "c", <<".", "b", "m", "p">>),
                         content |-> MkImage("BMP", "RGB", <<w, h>>, 0,
                                             "c.bmp", 0)]})
        /\ dest_path = <<"D">>
        /\ dirs = {source_path}
        /\ force_rescan = FALSE
        /\ workers = <<1>>
        /\ io_faults = 0

\* The source root is missing, or is a file and not a directory.
InitMissing ==
    /\ fs \in {TreeFs({}),
               TreeFs({[path |-> MkPath(<<>>, "S", <<>>),
                        content |-> Junk("S")]})}
    /\ dest_path = <<"D">>
    /\ dirs \in {{}, {<<"D">>}}
    /\ force_rescan \in BOOLEAN
    /\ workers \in {<<>>, <<1>>}
    /\ io_faults = 0

\* The arguments and the file system of a first call, no call made yet.
InitCall ==
    /\ InitSmall \/ InitFaulty \/ InitBulk \/ InitSized \/ InitMissing
    /\ pc = "idle"
    /\ rets = <<>>
    /\ tasks = NoTasks
    /\ process_tasks = <<>>
    /\ pos = <<>>
    /\ img = <<>>
    /\ result = <<>>
    /\ outq = <<>>
    /\ pbar = 0
    /\ errors = <<>>
    /\ displayed = <<>>
    /\ fs0 = fs
    /\ dirs0 = dirs
    /\ nrun = <<>>
    /\ saved = {}
    /\ discovered = FALSE
    /\ pool_started = FALSE

\* The launcher is not running; no dataset is being read.
NoLauncher ==
    /\ main_pc = "none"
    /\ command = <<>>
    /\ exit_code = <<>>

NoLoader ==
    /\ samples = <<>>
    /\ frames = <<>>
    /\ item_pc = "none"
    /\ item = <<>>

\* sanitize_dataset called on its own (the module's command line, a test).
Init == InitCall /\ NoLauncher /\ NoLoader

\* --------------------------------------------------- sanitize_dataset entry
\* multiprocessing.cpu_count()
cpu_count == CpuCount

Min(a, b) == IF a <= b THEN a ELSE b

\* workers if workers is not None else min(16, cpu_count())
num_workers ==
    IF workers # <<>> THEN workers[1] ELSE Min(DEFAULT_MAX_WORKERS, cpu_count)

\* A call can begin: none is running; on its own the function is called up
\* to MaxCalls times (MaxOverlapCalls when the destination root is the source
\* root or inside it), and main calls it once.
CanCall ==
    /\ pc # "dispatch"
    /\ Len(rets) < (IF IsPrefix(source_path, dest_path)
                    THEN MaxOverlapCalls ELSE MaxCalls)
    /\ main_pc \in {"none", "sanitize"}
    /\ main_pc = "sanitize" => rets = <<>>

BeginCall ==
    /\ fs0' = fs
    /\ dirs0' = dirs

\* The destination exists and no rescan is forced: return True at once.
SkipExisting ==
    /\ CanCall
    /\ SkipExistingCond
    /\ BeginCall
    /\ ResetCall
    /\ tasks' = NoTasks
    /\ process_tasks' = <<>>
    /\ discovered' = FALSE
    /\ pool_started' = FALSE
    /\ rets' = Append(rets, "True")
    /\ pc' = "returned"
    /\ UNCHANGED <<fs, dirs, args, launcher, loader, io_faults>>

\* Mutant: an empty source counts as a success.
EmptyVerdict_True == "True"

\* if not tasks: return False
EmptyVerdict == "False"

\* Discovery found nothing: return False.
NoImages ==
    /\ CanCall
    /\ ~SkipExistingCond
    /\ Discover(fs) = <<>>
    /\ BeginCall
    /\ ResetCall
    /\ tasks' = Discover(fs)
    /\ process_tasks' = <<>>
    /\ discovered' = TRUE
    /\ pool_started' = FALSE
    /\ rets' = Append(rets, EmptyVerdict)
    /\ pc' = "returned"
    /\ UNCHANGED <<fs, dirs, args, launcher, loader, io_faults>>

\* Pool(num_workers) raises ValueError for a count below 1.
PoolRaises ==
    /\ CanCall
    /\ ~SkipExistingCond
    /\ Discover(fs) # <<>>
    /\ num_workers < 1
    /\ BeginCall
    /\ ResetCall
    /\ tasks' = Discover(fs)
    /\ process_tasks' = ProcessTasks(Discover(fs), dest_path)
    /\ discovered' = TRUE
    /\ pool_started' = FALSE
    /\ rets' = Append(rets, "ValueError")
    /\ pc' = "returned"
    /\ UNCHANGED <<fs, dirs, args, launcher, loader, io_faults>>

\* Discovery found tasks and the pool starts: every task is queued.
StartPool ==
    /\ CanCall
    /\ ~SkipExistingCond
    /\ Discover(fs) # <<>>
    /\ num_workers >= 1
    /\ BeginCall
    /\ tasks' = Discover(fs)
    /\ process_tasks' = ProcessTasks(Discover(fs), dest_path)
    /\ pos' = [k \in DOMAIN Discover(fs) |-> "queued"]
    /\ img' = [k \in DOMAIN Discover(fs) |-> Junk("")]
    /\ result' = [k \in DOMAIN Discover(fs) |-> None]
    /\ nrun' = [k \in DOMAIN Discover(fs) |-> 0]
    /\ saved' = {}
    /\ outq' = <<>>
    /\ pbar' = 0
    /\ errors' = <<>>
    /\ displayed' = <<>>
    /\ discovered' = TRUE
    /\ pool_started' = TRUE
    /\ pc' = "dispatch"
    /\ UNCHANGED <<fs, dirs, args, launcher, loader, io_faults, rets>>

\* ----------------------------------------------------------- sanitize_image
\* Mutant: the exception is swallowed and the function falls through.
Caught_Swallowed(src_path, e) == None

\* except Exception as e: return f"Error processing {src_path}: {e}"
Caught(src_path, e) == ErrorMessage(src_path, e)

\* The environment fails the I/O call being made (permissions, disk full).
IOFails ==
    /\ io_faults > 0
    /\ io_faults' = io_faults - 1

Busy == {k \in DOMAIN pos : pos[k] \in {"started", "loaded", "saving"}}

\* Mutant: the result of a failed task never reaches the output queue.
Finished_Lost(k, r) ==
    /\ pos' = [pos EXCEPT ![k] = "done"]
    /\ result' = [result EXCEPT ![k] = r]
    /\ outq' = IF r.none THEN Append(outq, k) ELSE outq

\* A task leaves sanitize_image with result r: the result joins the pool's
\* output queue.
Finished(k, r) ==
    /\ pos' = [pos EXCEPT ![k] = "done"]
    /\ result' = [result EXCEPT ![k] = r]
    /\ outq' = Append(outq, k)

\* A free worker takes the next queued task and runs os.makedirs.
TaskStart(k) ==
    /\ pc = "dispatch"
    /\ pos[k] = "queued"
    /\ \A j \in 1..(k - 1) : pos[j] # "queued"
    /\ Cardinality(Busy) < num_workers
    /\ nrun' = [nrun EXCEPT ![k] = @ + 1]
    /\ \/ /\ dirs' = dirs \cup makedirs(dirname(process_tasks[k].dest))
          /\ pos' = [pos EXCEPT ![k] = "started"]
          /\ UNCHANGED <<result, outq, io_faults>>
       \/ /\ IOFails
          /\ Finished(k, Caught(process_tasks[k].src, "makedirs"))
          /\ UNCHANGED dirs
    /\ UNCHANGED <<fs, args, launcher, loader, pc, rets, tasks,
                   process_tasks, img, pbar, errors, displayed, fs0, dirs0,
                   saved, discovered, pool_started>>

\* Image.open, convert("RGB") and, above the threshold, thumbnail.
TaskLoad(k) ==
    /\ pc = "dispatch"
    /\ pos[k] = "started"
    /\ LET src == process_tasks[k].src
       IN  \/ /\ src \in DOMAIN fs
              /\ fs[src].kind = "image"
              /\ img' = [img EXCEPT ![k] = Decoded(fs[src])]
              /\ pos' = [pos EXCEPT ![k] = "loaded"]
              /\ UNCHANGED <<result, outq, io_faults>>
           \/ /\ ~(src \in DOMAIN fs /\ fs[src].kind = "image")
              /\ Finished(k, Caught(src, "cannot identify image file"))
              /\ UNCHANGED <<img, io_faults>>
           \/ /\ IOFails
              /\ Finished(k, Caught(src, "read"))
              /\ UNCHANGED img
    /\ UNCHANGED <<fs, dirs, args, launcher, loader, pc, rets, tasks,
                   process_tasks, pbar, errors, displayed, fs0, dirs0, nrun,
                   saved, discovered, pool_started>>

\* Mutant: an existing file is not overwritten.
Written_NoOverwrite(files, p, c) ==
    [q \in DOMAIN files \cup {p} |-> IF q \in DOMAIN files THEN files[q] ELSE c]

\* fs with content c written at path p
Written(files, p, c) ==
    [q \in DOMAIN files \cup {p} |-> IF q = p THEN c ELSE files[q]]

\* img.save(dest_path, "JPEG", quality=95) opens the destination for
\* writing, which creates it or cuts it to length zero.
TaskOpen(k) ==
    /\ pc = "dispatch"
    /\ pos[k] = "loaded"
    /\ LET t == process_tasks[k]
       IN  \/ /\ fs' = Written(fs, t.dest, Partial(img[k]))
              /\ pos' = [pos EXCEPT ![k] = "saving"]
              /\ UNCHANGED <<result, outq, io_faults>>
           \/ /\ IOFails
              /\ fs' = fs
              /\ Finished(k, Caught(t.src, "write"))
    /\ UNCHANGED <<dirs, args, launcher, loader, pc, rets, tasks,
                   process_tasks, img, pbar, errors, displayed, fs0, dirs0,
                   nrun, saved, discovered, pool_started>>

\* What the destination may hold when task k's encoder has written its last
\* block: its JPEG when no other task opened the file meanwhile; otherwise
\* the two processes wrote one file through separate descriptors, and the
\* file holds this task's JPEG, what the other left, or blocks of both.
SaveOutcomes(k) ==
    LET t == process_tasks[k]
    IN  IF t.dest \in DOMAIN fs /\ fs[t.dest] = Partial(img[k])
        THEN {Encoded(img[k])}
        ELSE {Encoded(img[k]), Partial(img[k])}
             \cup (IF t.dest \in DOMAIN fs THEN {fs[t.dest]} ELSE {})

\* The encoder writes the image, the file is closed and sanitize_image
\* returns.  A failed write leaves the file cut short.
TaskSave(k) ==
    /\ pc = "dispatch"
    /\ pos[k] = "saving"
    /\ LET t == process_tasks[k]
       IN  \/ /\ \E c \in SaveOutcomes(k) : fs' = Written(fs, t.dest, c)
              /\ saved' = saved \cup {k}
              /\ Finished(k, None)
              /\ UNCHANGED io_faults
           \/ /\ IOFails
              /\ fs' = fs
              /\ Finished(k, Caught(t.src, "write"))
              /\ UNCHANGED saved
    /\ UNCHANGED <<dirs, args, launcher, loader, pc, rets, tasks,
                   process_tasks, img, pbar, errors, displayed, fs0, dirs0,
                   nrun, discovered, pool_started>>

\* ------------------------------------------------- the main loop and report
\* One iteration of the loop over imap_unordered.
Collect ==
    /\ pc = "dispatch"
    /\ pbar < Len(outq)
    /\ errors' = IF Truthy(result[outq[pbar + 1]])
                 THEN Append(errors, result[outq[pbar + 1]])
                 ELSE errors
    /\ pbar' = pbar + 1
    /\ UNCHANGED <<fs, dirs, args, launcher, loader, io_faults, pc, rets,
                   tasks, process_tasks, pos, img, result, outq, displayed,
                   fs0, dirs0, nrun, saved, discovered, pool_started>>

\* Mutant: the loop also stops at the first error.
Exhausted_OnError == pbar = Len(process_tasks) \/ errors # <<>>

\* The iterator is exhausted once it has yielded one result per task.
Exhausted == pbar = Len(process_tasks)

\* errors[:10]
Shown(errs) == SubSeq(errs, 1, IF Len(errs) < DISPLAY_CAP THEN Len(errs) ELSE DISPLAY_CAP)

\* Mutant: the verdict looks only past the errors that are printed.
Verdict_PastShown(errs) == IF Len(errs) > DISPLAY_CAP THEN "False" ELSE "True"

\* The value sanitize_dataset returns after the pool.
Verdict(errs) == IF errs # <<>> THEN "False" ELSE "True"

Report ==
    /\ pc = "dispatch"
    /\ Exhausted
    /\ displayed' = Shown(errors)
    /\ rets' = Append(rets, Verdict(errors))
    /\ pc' = "returned"
    /\ UNCHANGED <<fs, dirs, args, launcher, loader, io_faults, tasks,
                   process_tasks, pos, img, result, outq, pbar, errors, fs0,
                   dirs0, nrun, saved, discovered, pool_started>>

Next ==
    \/ SkipExisting
    \/ NoImages
    \/ PoolRaises
    \/ StartPool
    \/ \E k \in DOMAIN pos : TaskStart(k)
    \/ \E k \in DOMAIN pos : TaskLoad(k)
    \/ \E k \in DOMAIN pos : TaskOpen(k)
    \/ \E k \in DOMAIN pos : TaskSave(k)
    \/ Collect
    \/ Report

Spec == Init /\ [][Next]_vars

\* A step of some worker process of the pool.
Work ==
    \E k \in DOMAIN pos :
        TaskStart(k) \/ TaskLoad(k) \/ TaskOpen(k) \/ TaskSave(k)

\* The pool's workers keep running while a task is queued or in hand, and
\* the main process keeps running its loop.
FairSpec == Spec /\ WF_vars(Work) /\ WF_vars(Collect) /\ WF_vars(Report)


\* -------------------------------------------------------- train_robust.main
call_vars == <<fs, dirs, args, io_faults, pc, rets, tasks, process_tasks, pos,
               img, result, outq, pbar, errors, displayed, fs0, dirs0, nrun,
               saved, discovered, pool_started>>

\* main after parse_args, about to call sanitize_dataset(args.data,
\* args.sanitized_dir, args.force_rescan, args.workers); --workers is an
\* int, never None.
MainInit ==
    /\ InitCall
    /\ workers # <<>>
    /\ main_pc = "sanitize"
    /\ command = <<>>
    /\ exit_code = <<>>
    /\ NoLoader

\* The training command, as far as it is built from the sanitizer's
\* arguments.
TrainCommand ==
    [prog |-> "yolo", task |-> "classify", data |-> dest_path,
     workers |-> workers[1], cache |-> "false"]

\* Mutant: the result of sanitize_dataset is not looked at.
Not_Ignored(success) == FALSE

\* not success
Not(success) == success # "True"

\* What sanitize_dataset returned to main.
success == rets[1]

Returned == pc = "returned" /\ rets # <<>> /\ success \in {"True", "False"}

\* if not success: sys.exit(1)
MainAbort ==
    /\ main_pc = "sanitize"
    /\ Returned
    /\ Not(success)
    /\ main_pc' = "exited"
    /\ exit_code' = <<1>>
    /\ UNCHANGED <<command, call_vars, loader>>

\* sanitize_dataset raised: main catches nothing around it, the interpreter
\* prints the traceback and exits with status 1.
MainRaise ==
    /\ main_pc = "sanitize"
    /\ pc = "returned"
    /\ rets # <<>>
    /\ success = "ValueError"
    /\ main_pc' = "exited"
    /\ exit_code' = <<1>>
    /\ UNCHANGED <<command, call_vars, loader>>

\* subprocess.run(command, check=True): the command starts, or the program
\* "yolo" is not found and main exits with status 1.
MainTrain ==
    /\ main_pc = "sanitize"
    /\ Returned
    /\ ~Not(success)
    /\ \/ /\ command' = <<TrainCommand>>
          /\ main_pc' = "training"
          /\ UNCHANGED exit_code
       \/ /\ main_pc' = "exited"
          /\ exit_code' = <<1>>
          /\ UNCHANGED command
    /\ UNCHANGED <<call_vars, loader>>

\* The training ends: main returns (status 0), or CalledProcessError and
\* sys.exit(1).
TrainEnds ==
    /\ main_pc = "training"
    /\ main_pc' = "exited"
    /\ exit_code' \in {<<0>>, <<1>>}
    /\ UNCHANGED <<command, call_vars, loader>>

MainNext ==
    \/ Next
    \/ MainAbort
    \/ MainRaise
    \/ MainTrain
    \/ TrainEnds

MainSpec == MainInit /\ [][MainNext]_vars


\* ------------------------------------- CustomClassificationDataset.__getitem__
\* A sample: whether Image.open(f).convert("RGB") succeeds on its file, and
\* its class index j.  The file of sample i is identified by i.
Samples == [loads : BOOLEAN, j : 0..(MaxClasses - 1)]

\* A dataset of 1 to MaxSamples samples; no __getitem__ call made yet.
DataInit ==
    /\ InitCall
    /\ fs = TreeFs({}) /\ dirs = {} /\ ~force_rescan /\ workers = <<1>>
    /\ NoLauncher
    /\ samples \in UNION {[1..n -> Samples] : n \in 1..MaxSamples}
    /\ frames = <<>>
    /\ item_pc = "idle"
    /\ item = <<>>

\* The sample the innermost call is loading.
Top == frames[Len(frames)]

\* {"img": self.torch_transforms(im), "cls": j} for sample i
ItemOf(i) == [img |-> i, cls |-> samples[i].j]

\* The data loader calls __getitem__(i).
GetItem(i) ==
    /\ item_pc = "idle"
    /\ frames' = <<i>>
    /\ item_pc' = "running"
    /\ UNCHANGED <<samples, item, call_vars, launcher>>

\* The image loads: the call returns the sample, and so does every call
\* that is waiting for it.
LoadOk ==
    /\ item_pc = "running"
    /\ samples[Top].loads
    /\ item' = <<ItemOf(Top)>>
    /\ item_pc' = "returned"
    /\ UNCHANGED <<samples, frames, call_vars, launcher>>

\* The image does not load: the handler calls
\* self.__getitem__(np.random.randint(len(self))).
Retry ==
    /\ item_pc = "running"
    /\ ~samples[Top].loads
    /\ Len(frames) < RecursionLimit
    /\ \E r \in DOMAIN samples : frames' = Append(frames, r)
    /\ UNCHANGED <<samples, item_pc, item, call_vars, launcher>>

\* The image does not load and the interpreter's stack is full: the nested
\* call raises RecursionError inside the handler, which no frame catches.
Overflow ==
    /\ item_pc = "running"
    /\ ~samples[Top].loads
    /\ Len(frames) >= RecursionLimit
    /\ item_pc' = "raised"
    /\ UNCHANGED <<samples, frames, item, call_vars, launcher>>

DataNext ==
    \/ \E i \in DOMAIN samples : GetItem(i)
    \/ LoadOk
    \/ Retry
    \/ Overflow

DataSpec == DataInit /\ [][DataNext]_vars

\* ============================================================== properties
Range(s) == {s[k] : k \in DOMAIN s}

\* What the call that has just returned gave back.
LastRet == rets[Len(rets)]

\* The current call began with the destination present and no forced rescan.
SkippedAtEntry == dest_path \in dirs0 /\ ~force_rescan

\* The current call has returned from the dispatch phase.
Dispatched == pc = "returned" /\ pool_started

\* The tasks for which sanitize_image returned a failure.
FailedTasks == {k \in DOMAIN result : pos[k] = "done" /\ ~result[k].none}

\* No work: no discovery, no pool, no task, the file system as it was.
NoWork ==
    /\ ~discovered
    /\ ~pool_started
    /\ process_tasks = <<>>
    /\ nrun = <<>>
    /\ fs = fs0
    /\ dirs = dirs0

\* C1: a call that finds the destination present with force_rescan false
\* returns True and does no work (no discovery, no pool, no task, the file
\* system unchanged), whatever the source tree and the worker count; it
\* never enters the dispatch phase.
C1_SkipReturnsTrueNoWork ==
    SkippedAtEntry =>
        /\ pc # "dispatch"
        /\ pc = "returned" => LastRet = "True" /\ NoWork

\* C1 witness: the skip was taken although the source tree holds images.
C1_Witness ==
    /\ pc = "returned"
    /\ SkippedAtEntry
    /\ LastRet = "True"
    /\ Discover(fs) # <<>>

\* C2: after the dispatch phase the call returns True exactly when no task
\* failed; the errors printed are the first DISPLAY_CAP of the list, and with
\* more failures than that the verdict is still False.
C2_VerdictFromAllFailures ==
    Dispatched =>
        /\ LastRet \in {"True", "False"}
        /\ LastRet = "True" <=> FailedTasks = {}
        /\ Cardinality(FailedTasks) > DISPLAY_CAP =>
              /\ LastRet = "False"
              /\ Len(displayed) = DISPLAY_CAP
        /\ Len(displayed) <= DISPLAY_CAP
        /\ \A e \in DOMAIN displayed : displayed[e] = errors[e]
        /\ Len(errors) <= DISPLAY_CAP => displayed = errors

\* C2 witness: a run that ended with more than DISPLAY_CAP failures.
C2_Witness ==
    /\ Dispatched
    /\ Cardinality(FailedTasks) > DISPLAY_CAP
    /\ Len(errors) > Len(displayed)

\* C3: the dispatch phase returns only when every task has an outcome; each
\* task was taken exactly once, whatever the other tasks did, and the error
\* list holds exactly one entry per failed task.
C3_EveryTaskOnce ==
    /\ \A k \in DOMAIN nrun : nrun[k] <= 1
    /\ Dispatched =>
          /\ process_tasks # <<>>
          /\ \A k \in DOMAIN process_tasks :
                /\ pos[k] = "done"
                /\ nrun[k] = 1
                /\ Cardinality({n \in DOMAIN outq : outq[n] = k}) = 1
          /\ Len(errors) = Cardinality(FailedTasks)
          /\ \A k \in FailedTasks :
                Cardinality({e \in DOMAIN errors : errors[e] = result[k]}) = 1
          /\ \A e \in DOMAIN errors :
                \E k \in FailedTasks : errors[e] = result[k]

\* C3 witness: a run on two or more workers in which one task failed and
\* another, queued behind it, succeeded.
C3_Witness ==
    /\ Dispatched
    /\ num_workers >= 2
    /\ \E k \in FailedTasks : \E j \in saved : k < j

\* C4: sanitize_image hands every failure back as a non-empty message that
\* names the task's source path, whichever step failed, and returns None
\* only when img.save wrote the destination file.
C4_FailureIsMessage ==
    \A k \in DOMAIN pos :
        pos[k] = "done" =>
            /\ result[k].none =>
                  /\ k \in saved
                  /\ process_tasks[k].dest \in DOMAIN fs
            /\ ~result[k].none =>
                  /\ Truthy(result[k])
                  /\ result[k].prefix # ""
                  /\ result[k].src = process_tasks[k].src
                  /\ k \notin saved

\* C4 witness: in one run img.save failed for a task whose image had been
\* decoded, and another task returned None.
C4_Witness ==
    /\ \E k \in DOMAIN pos : pos[k] = "done" /\ result[k].detail = "write"
    /\ \E j \in DOMAIN pos : pos[j] = "done" /\ result[j].none

NoSupported(files) ==
    \A p \in DOMAIN files :
        IsPrefix(source_path, p.dir) =>
            Lower(p.suffix) \notin Range(supported_formats)

\* C6: in the Execute path, a source tree without any file of a supported
\* extension makes the call return False: no pool, no task, and neither the
\* destination root nor any file is created.
C6_EmptyBatchFails ==
    (pc = "returned" /\ ~SkippedAtEntry /\ NoSupported(fs0)) =>
        /\ LastRet = "False"
        /\ ~pool_started
        /\ nrun = <<>>
        /\ fs = fs0
        /\ dirs = dirs0

\* C6 witness: the source holds a file, none supported, and the destination
\* root is still absent after the call.
C6_Witness ==
    /\ pc = "returned"
    /\ ~SkippedAtEntry
    /\ NoSupported(fs0)
    /\ DOMAIN fs0 # {}
    /\ dest_path \notin dirs

\* The tasks whose source was undecodable, or an image, when the call began.
CorruptTasks ==
    {k \in DOMAIN process_tasks : fs0[process_tasks[k].src].kind = "junk"}

ValidTasks ==
    {k \in DOMAIN process_tasks : fs0[process_tasks[k].src].kind = "image"}

\* No I/O call of the run was failed by the environment.
NoIOError ==
    \A k \in DOMAIN result : result[k].detail \notin {"makedirs", "read", "write"}

\* A finished run over a batch with exactly one corrupt source file.
OneCorruptBatch ==
    /\ Dispatched
    /\ num_workers >= 1
    /\ Cardinality(CorruptTasks) = 1
    /\ NoIOError

\* The destination paths of the valid sources that exist.
ValidDestFiles == {process_tasks[k].dest : k \in ValidTasks} \cap DOMAIN fs

\* No task's destination is another task's destination or source.
SeparateTasks ==
    \A i, j \in DOMAIN process_tasks :
        i # j =>
            /\ process_tasks[i].dest # process_tasks[j].dest
            /\ process_tasks[i].dest # process_tasks[j].src

\* C7 as claimed: one corrupt file among N valid ones gives exactly one
\* failure and exactly N destination files, one per valid source (stated
\* here for a destination outside the source tree only).
C7_AsClaimed ==
    (OneCorruptBatch /\ ~IsPrefix(source_path, dest_path)) =>
        /\ Cardinality(FailedTasks) = 1
        /\ Cardinality(ValidDestFiles) = Cardinality(ValidTasks)

\* C7 amended: when no task's destination path is another task's destination
\* or source path and no I/O call fails, one corrupt file among N valid ones
\* gives exactly one failure, that of the corrupt file, and each valid
\* source's destination holds its JPEG: N destination files.
C7_IsolatedFailure ==
    (OneCorruptBatch /\ SeparateTasks) =>
        /\ FailedTasks = CorruptTasks
        /\ Cardinality(FailedTasks) = 1
        /\ Cardinality(ValidDestFiles) = Cardinality(ValidTasks)
        /\ \A k \in ValidTasks :
              LET t == process_tasks[k]
              IN  /\ k \in saved
                  /\ t.dest \in DOMAIN fs
                  /\ fs[t.dest].kind = "image"
                  /\ fs[t.dest].format = "JPEG"
                  /\ fs[t.dest].origin = fs0[t.src].origin

\* C7 witness: one corrupt and two valid files on two or more workers.
C7_Witness ==
    /\ OneCorruptBatch
    /\ SeparateTasks
    /\ num_workers >= 2
    /\ Cardinality(ValidTasks) >= 2
    /\ Cardinality(FailedTasks) = 1

\* C8 as claimed: every file discovered as a source holds, during and after
\* the run, the content it had when the run began.
C8_SourcesUntouched ==
    discovered =>
        \A k \in DOMAIN tasks :
            /\ tasks[k] \in DOMAIN fs
            /\ fs[tasks[k]] = fs0[tasks[k]]

\* How many tasks have the file p as their source.
TimesDiscovered(p) == Cardinality({k \in DOMAIN tasks : tasks[k] = p})

\* C9 as claimed: discovery yields exactly one task for each file under the
\* source root whose extension is a supported one in any mix of cases, and
\* none for any other file.
C9_CaseInsensitiveDiscovery ==
    discovered =>
        /\ \A p \in DOMAIN fs0 :
              IsPrefix(source_path, p.dir) =>
                  TimesDiscovered(p) =
                      IF Lower(p.suffix) \in Range(supported_formats)
                      THEN 1 ELSE 0
        /\ Range(tasks) \subseteq DOMAIN fs0

\* The directory of p below root.
Below(root, d) == SubSeq(d, Len(root) + 1, Len(d))

\* C10: each task's destination is the destination root joined with the
\* source's path relative to the source root, its extension replaced by
\* ".jpg"; and no two tasks share a destination when the discovered sources
\* are pairwise distinct once their extension is replaced.
C10_DestinationPaths ==
    discovered =>
        /\ Len(process_tasks) \in {0, Len(tasks)}
        /\ pool_started => Len(process_tasks) = Len(tasks)
        /\ \A k \in DOMAIN process_tasks :
              LET t == process_tasks[k]
              IN  /\ t.src = tasks[k]
                  /\ IsPrefix(source_path, t.src.dir)
                  /\ IsPrefix(dest_path, t.dest.dir)
                  /\ Below(dest_path, t.dest.dir) = Below(source_path, t.src.dir)
                  /\ t.dest.stem = t.src.stem
                  /\ t.dest.suffix = <<".", "j", "p", "g">>
        /\ (\A p, q \in Range(tasks) :
                p # q => <<Below(source_path, p.dir), p.stem>>
                         # <<Below(source_path, q.dir), q.stem>>)
            => \A i, j \in DOMAIN process_tasks :
                   i # j => process_tasks[i].dest # process_tasks[j].dest

\* C10 witness: two or more tasks, one from a subdirectory and with another
\* extension than ".jpg", all with distinct destinations.
C10_Witness ==
    /\ discovered
    /\ Len(process_tasks) >= 2
    /\ \E k \in DOMAIN process_tasks :
          /\ Below(source_path, tasks[k].dir) # <<>>
          /\ tasks[k].suffix # JpgSuffix
    /\ \A i, j \in DOMAIN process_tasks :
          i # j => process_tasks[i].dest # process_tasks[j].dest

\* C11 as claimed: a call whose worker count is zero or negative ends with
\* the invalid-input error raised by the pool and does no processing, in
\* every state of the source and destination directories, a destination
\* that exists with force_rescan false included.
C11_InvalidWorkersRejected ==
    (pc = "returned" /\ workers # <<>> /\ workers[1] <= 0) =>
        /\ LastRet = "ValueError"
        /\ ~pool_started
        /\ nrun = <<>>
        /\ fs = fs0
        /\ dirs = dirs0

\* C12 as claimed: when the source root does not exist or is not a directory
\* the call ends with an invalid-input error, which is neither the False of
\* an existing source without supported files nor True, and does no
\* processing.
C12_MissingSourceRejected ==
    (pc = "returned" /\ source_path \notin dirs0) =>
        /\ LastRet \notin {"True", "False"}
        /\ ~pool_started
        /\ nrun = <<>>
        /\ fs = fs0
        /\ dirs = dirs0

\* The run of a task list on one worker: the tasks one after the other in
\* list order, each decoding the file its source path holds at that moment.
RECURSIVE OneWorkerRun(_, _, _)
OneWorkerRun(files, todo, failed) ==
    IF todo = <<>> THEN [files |-> files, failed |-> failed]
    ELSE LET t == Head(todo)
         IN  IF t.src \in DOMAIN files /\ files[t.src].kind = "image"
             THEN OneWorkerRun(Written(files, t.dest,
                                       Encoded(Decoded(files[t.src]))),
                               Tail(todo), failed)
             ELSE OneWorkerRun(files, Tail(todo), failed + 1)

\* The files under the destination root.
DestFiles(files) == {p \in DOMAIN files : IsPrefix(dest_path, p.dir)}

\* C13 as claimed: a run on any number of workers, in any interleaving, ends
\* with the set of destination files and the number of failures that the
\* run of the same task list on one worker gives from the same initial file
\* system (no I/O call failed by the environment).
C13_SameAsOneWorker ==
    (Dispatched /\ NoIOError) =>
        LET one == OneWorkerRun(fs0, process_tasks, 0)
        IN  /\ DestFiles(fs) = DestFiles(one.files)
            /\ Cardinality(FailedTasks) = one.failed

\* C13 outside the source tree (not the claim): with the destination root
\* outside the source root the outcome is that of one worker.
C13_SeparateRoots ==
    ~IsPrefix(source_path, dest_path) => C13_SameAsOneWorker

\* The tasks that wrote a destination file which no other task reads or
\* writes, from a source file which no task writes: for these the source
\* holds the image that was decoded and the destination the image written.
WroteAlone ==
    {k \in saved :
        /\ ~IsPrefix(source_path, dest_path)
        /\ \A j \in DOMAIN process_tasks :
              j # k => process_tasks[j].dest # process_tasks[k].dest}

SizeIn(k) == fs0[process_tasks[k].src].size

SizeOut(k) == fs[process_tasks[k].dest].size

\* C14: an image wider or higher than 2048 is written with width and height
\* at most 1024, the longer side exactly 1024 and the other within one pixel
\* of the input's side scaled by the same factor.
C14_ResizeLaw ==
    \A k \in WroteAlone :
        LET w == SizeIn(k)[1]
            h == SizeIn(k)[2]
            x == SizeOut(k)[1]
            y == SizeOut(k)[2]
        IN  (w > 2048 \/ h > 2048) =>
                /\ 1 <= x /\ x <= 1024
                /\ 1 <= y /\ y <= 1024
                /\ IF w >= h
                   THEN x = 1024 /\ Abs(y * w - 1024 * h) <= w
                   ELSE y = 1024 /\ Abs(x * h - 1024 * w) <= h

\* C14 witness: a resized image whose scaled shorter side is not a whole
\* number of pixels and was rounded.
C14_Witness ==
    \E k \in WroteAlone :
        /\ SizeIn(k)[1] > 2048
        /\ SizeOut(k)[1] = 1024
        /\ SizeOut(k)[2] * SizeIn(k)[1] # 1024 * SizeIn(k)[2]

\* C15: an image with width and height both at most 2048 is written with
\* exactly its width and height, and no image is written wider or higher
\* than it was.
C15_NoUpscale ==
    \A k \in WroteAlone :
        /\ (SizeIn(k)[1] <= 2048 /\ SizeIn(k)[2] <= 2048) =>
              SizeOut(k) = SizeIn(k)
        /\ SizeOut(k)[1] <= SizeIn(k)[1]
        /\ SizeOut(k)[2] <= SizeIn(k)[2]

\* C15 witness: an image of exactly 2048 by 2048 written at that size.
C15_Witness ==
    \E k \in WroteAlone :
        /\ SizeIn(k) = <<2048, 2048>>
        /\ SizeOut(k) = <<2048, 2048>>

\* C16: every call that enters the dispatch phase (worker count at least 1)
\* eventually returns, whatever the task list and whichever tasks fail,
\* when the workers and the main loop keep taking steps.
C16_DispatchReturns == (pc = "dispatch") ~> (pc = "returned")

\* C16 witness: a run on two workers has returned with a failed task and a
\* saved one.
C16_Witness ==
    /\ Dispatched
    /\ num_workers >= 2
    /\ FailedTasks # {}
    /\ saved # {}
    /\ LastRet = "False"

\* The pairs of tasks with decodable sources and one destination path.
Colliding ==
    {ij \in (DOMAIN process_tasks) \X (DOMAIN process_tasks) :
        /\ ij[1] < ij[2]
        /\ process_tasks[ij[1]].dest = process_tasks[ij[2]].dest
        /\ {ij[1], ij[2]} \subseteq ValidTasks}

\* A finished run in which the environment failed no I/O call.
CollisionRun ==
    /\ Dispatched
    /\ NoIOError

\* Of two tasks, the one whose save ended last.
LastSaved(i, j) ==
    IF (CHOOSE n \in DOMAIN outq : outq[n] = i)
           < (CHOOSE n \in DOMAIN outq : outq[n] = j)
    THEN j ELSE i

\* Both tasks of a colliding pair ran once and returned None, and the
\* verdict counts no failure for them.
BothSucceed(i, j) ==
    /\ nrun[i] = 1 /\ nrun[j] = 1
    /\ {i, j} \subseteq saved
    /\ result[i].none /\ result[j].none
    /\ \A e \in DOMAIN errors : errors[e].src \notin
            {process_tasks[i].src, process_tasks[j].src}
    /\ LastRet = "True" <=> FailedTasks = {}
    /\ process_tasks[i].dest \in DOMAIN fs

SucceedsOrReadTorn(k) ==
    /\ nrun[k] = 1
    /\ \/ k \in saved /\ result[k].none
       \/ /\ process_tasks[k].src = process_tasks[k].dest
          /\ num_workers >= 2
          /\ result[k].detail = "cannot identify image file"

FailedAfterMakedirs ==
    /\ Dispatched
    /\ LastRet = "False"
    /\ \E k \in DOMAIN result :
          pos[k] = "done" /\ nrun[k] = 1 /\ result[k].detail # "makedirs"

\* No failed task of the run left an image of its source at its destination.
FailedNotProduced(files) ==
    \A k \in FailedTasks :
        LET t == process_tasks[k]
        IN  ~(/\ t.dest \in DOMAIN files
              /\ files[t.dest].kind = "image"
              /\ files[t.dest].origin = fs0[t.src].origin
              /\ files[t.dest].gen > fs0[t.src].gen)

\* C18: a run that returns False after a task created its destination
\* directory leaves the destination root in existence; the next call with
\* force_rescan false then returns True without discovery, pool or any
\* write, and the outputs of the failed tasks are still missing.
C18_FailedRunSkipsNext ==
    /\ [](FailedAfterMakedirs => dest_path \in dirs)
    /\ [][(FailedAfterMakedirs /\ ~force_rescan) =>
              /\ rets' = Append(rets, "True")
              /\ ~discovered' /\ ~pool_started'
              /\ process_tasks' = <<>>
              /\ fs' = fs /\ dirs' = dirs
              /\ FailedNotProduced(fs')]_vars

\* C18 witness: the first call returned False, the second skipped and
\* returned True, and a supported source file has no destination file.
C18_Witness ==
    /\ pc = "returned"
    /\ rets = <<"False", "True">>
    /\ ~force_rescan
    /\ NoWork
    /\ dest_path \in dirs
    /\ \E k \in DOMAIN Discover(fs) :
          DestOf(Discover(fs)[k], dest_path) \notin DOMAIN fs

\* C19: main starts the training command only after sanitize_dataset has
\* returned True in this invocation; when it returned False main exits with
\* status 1 and the command is never started.
C19_TrainOnlyAfterSuccess ==
    /\ command # <<>> =>
          /\ pc = "returned"
          /\ rets = <<"True">>
          /\ command = <<TrainCommand>>
    /\ main_pc = "training" => command # <<>>
    /\ (rets # <<>> /\ success # "True") =>
          /\ command = <<>>
          /\ main_pc \in {"sanitize", "exited"}
          /\ main_pc = "exited" => exit_code = <<1>>

\* C19 witness: training runs on the output of a sanitizer run that went
\* through the pool and returned True.
C19_Witness ==
    /\ main_pc = "training"
    /\ Dispatched
    /\ success = "True"
    /\ saved # {}

\* Some sample of the dataset loads.
SomeLoads == \E i \in DOMAIN samples : samples[i].loads

\* C20 as claimed: __getitem__ returns only the image of a sample that
\* loaded, with that sample's class; each nested call was made after a
\* failed load, with an index of the dataset; a call on a dataset with a
\* loadable sample ends by returning, and one on a dataset without any
\* never returns normally.
C20_RetryUntilLoaded ==
    /\ \A n \in DOMAIN frames :
          /\ frames[n] \in DOMAIN samples
          /\ n < Len(frames) => ~samples[frames[n]].loads
    /\ item_pc = "returned" =>
          /\ samples[Top].loads
          /\ item = <<[img |-> Top, cls |-> samples[Top].j]>>
    /\ item_pc # "returned" => item = <<>>
    /\ SomeLoads => item_pc # "raised"
    /\ ~SomeLoads => item_pc # "returned"

====
